---- MODULE Spec2Model ----
(***************************************************************************)
(* WorkerDriver (packages/driver-worker/src/WorkerDriver.js): the bridge    *)
(* between the live document of the worker and the render host.             *)
(*                                                                          *)
(* JavaScript values are modelled as follows.                               *)
(*   null, undefined     the records Null and Undefined                     *)
(*   a live node         [node |-> name], its fields read from NodeInfo     *)
(*   a string value      [str |-> s] where the code tests typeof, a plain   *)
(*                       string elsewhere (identities, tags, payloads)      *)
(*   an object           a record holding exactly the own properties set    *)
(*   an array            a sequence                                         *)
(* The property $$id is written id.                                         *)
(***************************************************************************)
EXTENDS Integers, Sequences, FiniteSets, TLC

VARIABLES
  nodeCounter,   \* this.nodeCounter
  nodesMap,      \* this.nodesMap: identity -> live node
  ids,           \* node.$$id of every node that carries one: node name -> identity
  hitStyle,      \* own keys of this.hitStyle (every own key holds true)
  URL,           \* document.URL
  clientWidth,   \* document.documentElement.clientWidth
  mutations,     \* the batch the observer callback received last, as received
  calls,         \* the sanitize calls on single nodes made for that batch, in order
  sanitized,     \* that batch after the loop of lines 38-45, before the filter
  posted,        \* the messages handed to postMessage by the last step
  message,       \* the inbound message handled by the last step
  handled,       \* the event object as handleEvent left it
  dispatched,    \* the dispatchEvent calls of the last step: [target, event]
  applied,       \* the evaluator.apply calls of the last step
  resolved,      \* the getNode calls of the last step, in order: [node, value]
  removed        \* history: the nodes some batch so far listed as removed

vars == <<nodeCounter, nodesMap, ids, hitStyle, URL, clientWidth,
          mutations, calls, sanitized, posted, message, handled, dispatched, applied,
          resolved, removed>>

----------------------------------------------------------------------------
(* Program constants *)

ELEMENT_NODE == 1
TEXT_NODE == 3
COMMENT_NODE == 8
BODY == "BODY"
STYLE_ELEMENT == "STYLE"
TO_SANITIZE == <<"target", "addedNodes", "removedNodes", "nextSibling", "previousSibling">>

Null == [js |-> "null"]
Undefined == [js |-> "undefined"]

\* Property names every object literal inherits from Object.prototype; a lookup
\* of one of them on {} yields a function or an object, which is truthy.
ObjectPrototypeKeys ==
  {"constructor", "toString", "valueOf", "hasOwnProperty", "isPrototypeOf",
   "propertyIsEnumerable", "toLocaleString", "__proto__"}

----------------------------------------------------------------------------
(* Bounds *)

MaxCounter == 3    \* batches that would register more nodes are not delivered
MaxBatch == 2      \* change records per batch
MaxList == 2       \* nodes per added / removed list
MaxTouches == 1    \* entries per pointer list

----------------------------------------------------------------------------
(* The live tree: the nodes the host may report, and their fields *)

NoNode == ""

NodeInfo ==
  [ html      |-> [nodeName |-> "HTML", nodeType |-> ELEMENT_NODE, firstChild |-> "head",
                   parentNode |-> NoNode, data |-> "", events |-> <<>>,
                   attributes |-> <<>>, style |-> {}],
    head      |-> [nodeName |-> "HEAD", nodeType |-> ELEMENT_NODE, firstChild |-> NoNode,
                   parentNode |-> "html", data |-> "", events |-> <<>>,
                   attributes |-> <<>>, style |-> {}],
    body      |-> [nodeName |-> BODY, nodeType |-> ELEMENT_NODE, firstChild |-> "style1",
                   parentNode |-> "html", data |-> "", events |-> <<"click">>,
                   attributes |-> <<"class">>, style |-> {"color"}],
    style1    |-> [nodeName |-> STYLE_ELEMENT, nodeType |-> ELEMENT_NODE, firstChild |-> "text1",
                   parentNode |-> "body", data |-> "", events |-> <<>>,
                   attributes |-> <<>>, style |-> {}],
    style2    |-> [nodeName |-> STYLE_ELEMENT, nodeType |-> ELEMENT_NODE, firstChild |-> "text2",
                   parentNode |-> "body", data |-> "", events |-> <<>>,
                   attributes |-> <<"media">>, style |-> {}],
    style3    |-> [nodeName |-> STYLE_ELEMENT, nodeType |-> ELEMENT_NODE, firstChild |-> "text3",
                   parentNode |-> "body", data |-> "", events |-> <<>>,
                   attributes |-> <<>>, style |-> {}],
    style4    |-> [nodeName |-> STYLE_ELEMENT, nodeType |-> ELEMENT_NODE, firstChild |-> NoNode,
                   parentNode |-> "body", data |-> "", events |-> <<>>,
                   attributes |-> <<>>, style |-> {}],
    div       |-> [nodeName |-> "DIV", nodeType |-> ELEMENT_NODE, firstChild |-> "text4",
                   parentNode |-> "body", data |-> "", events |-> <<"touchstart">>,
                   attributes |-> <<"id">>, style |-> {"width"}],
    text1     |-> [nodeName |-> "#text", nodeType |-> TEXT_NODE, firstChild |-> NoNode,
                   parentNode |-> "style1", data |-> "body{color:red}", events |-> <<>>,
                   attributes |-> <<>>, style |-> {}],
    text2     |-> [nodeName |-> "#text", nodeType |-> TEXT_NODE, firstChild |-> NoNode,
                   parentNode |-> "style2", data |-> "body{color:red}", events |-> <<>>,
                   attributes |-> <<>>, style |-> {}],
    text3     |-> [nodeName |-> "#text", nodeType |-> TEXT_NODE, firstChild |-> NoNode,
                   parentNode |-> "style3", data |-> "constructor", events |-> <<>>,
                   attributes |-> <<>>, style |-> {}],
    text4     |-> [nodeName |-> "#text", nodeType |-> TEXT_NODE, firstChild |-> NoNode,
                   parentNode |-> "div", data |-> "hello", events |-> <<>>,
                   attributes |-> <<>>, style |-> {}],
    comment   |-> [nodeName |-> "#comment", nodeType |-> COMMENT_NODE, firstChild |-> NoNode,
                   parentNode |-> "div", data |-> "note", events |-> <<>>,
                   attributes |-> <<>>, style |-> {}] ]

NodeNames == DOMAIN NodeInfo
Node(name) == [node |-> name]
Nodes == {Node(name) : name \in NodeNames}
Info(n) == NodeInfo[n.node]

----------------------------------------------------------------------------
(* Identity registry: sanitize, lines 115-118 *)

DigitChar == <<"0", "1", "2", "3", "4", "5", "6", "7", "8", "9">>

\* String(n) for a non-negative integer: its decimal digits.
RECURSIVE String(_)
String(n) ==
  IF n < 10 THEN DigitChar[n + 1]
  ELSE String(n \div 10) \o DigitChar[(n % 10) + 1]

\* !!node.$$id
HasId(d, n) == n.node \in DOMAIN d.ids

\* AssignId without the test of line 115: every call assigns a fresh identity.
AssignIdAgain(d, n) ==
  LET c == d.nodeCounter + 1
  IN  [d EXCEPT !.nodeCounter = c,
                !.ids = (n.node :> String(c)) @@ d.ids,
                !.nodesMap = (String(c) :> n) @@ d.nodesMap]

\* AssignId with the counter read but not advanced.
AssignIdStale(d, n) ==
  IF ~HasId(d, n)
    THEN LET c == d.nodeCounter + 1
         IN  [d EXCEPT !.ids = (n.node :> String(c)) @@ d.ids,
                       !.nodesMap = (String(c) :> n) @@ d.nodesMap]
    ELSE d

\* if (!node.$$id) { node.$$id = String(++this.nodeCounter); this.nodesMap.set(...) }
AssignId(d, n) ==
  IF ~HasId(d, n)
    THEN LET c == d.nodeCounter + 1
         IN  [d EXCEPT !.nodeCounter = c,
                       !.ids = (n.node :> String(c)) @@ d.ids,
                       !.nodesMap = (String(c) :> n) @@ d.nodesMap]
    ELSE d

----------------------------------------------------------------------------
(* sanitize of one node, lines 120-169.  d is the driver's state while a    *)
(* batch is sanitized; the result is [d |-> the state after, value |-> the  *)
(* returned value].                                                         *)

\* Truthiness of this.hitStyle[textStyle]: an own key, or a key inherited from
\* Object.prototype (hitStyle is the object literal {}).
HitStyle(h, textStyle) == textStyle \in h \/ textStyle \in ObjectPrototypeKeys

\* node.firstChild && node.firstChild.nodeType === TEXT_NODE
HasStyleText(n) ==
  /\ Info(n).firstChild # NoNode
  /\ NodeInfo[Info(n).firstChild].nodeType = TEXT_NODE

\* lines 154-157: listeners, attributes and style, each only when not empty
WithContent(n, result) ==
  LET r1 == IF Len(Info(n).events) > 0
              THEN result @@ ("events" :> Info(n).events) ELSE result
      r2 == IF Len(Info(n).attributes) > 0
              THEN r1 @@ ("attributes" :> Info(n).attributes) ELSE r1
  IN  IF Cardinality(Info(n).style) > 0
        THEN r2 @@ ("style" :> Info(n).style) ELSE r2

\* case ELEMENT_NODE, lines 134-158
SanitizeElement(d, n, result) ==
  LET r1 == result @@ ("nodeName" :> Info(n).nodeName)
      textStyle == NodeInfo[Info(n).firstChild].data
  IN  IF Info(n).nodeName = STYLE_ELEMENT /\ HasStyleText(n)
        THEN IF HitStyle(d.hitStyle, textStyle)
               THEN [d |-> d, value |-> Null]
               ELSE [d |-> [d EXCEPT !.hitStyle = @ \cup {textStyle}],
                     value |-> WithContent(n, r1 @@ ("childNodes" :>
                                 <<[nodeType |-> TEXT_NODE, data |-> textStyle]>>))]
        ELSE [d |-> d, value |-> WithContent(n, r1)]

\* case TEXT_NODE, lines 160-162: the test that returns null
IsStyleOwnedText(n) ==
  /\ Info(n).parentNode # NoNode
  /\ NodeInfo[Info(n).parentNode].nodeName = STYLE_ELEMENT

\* SanitizeData without the return of line 162: every text node falls through.
SanitizeDataFallThrough(d, n, result) ==
  [d |-> d, value |-> result @@ ("data" :> Info(n).data)]

\* case TEXT_NODE and case COMMENT_NODE, lines 160-165
SanitizeData(d, n, result) ==
  IF Info(n).nodeType = TEXT_NODE /\ IsStyleOwnedText(n)
    THEN [d |-> d, value |-> Null]
    ELSE [d |-> d, value |-> result @@ ("data" :> Info(n).data)]

\* prop === 'addedNodes', lines 129-167
SanitizeAdded(d, n, result) ==
  LET r1 == result @@ ("nodeType" :> Info(n).nodeType)
  IN  CASE Info(n).nodeType = ELEMENT_NODE -> SanitizeElement(d, n, r1)
        [] Info(n).nodeType \in {TEXT_NODE, COMMENT_NODE} -> SanitizeData(d, n, r1)
        [] OTHER -> [d |-> d, value |-> r1]

\* SanitizeRemoved that drops the registry entry of the removed node.
SanitizeRemovedEvicts(d, n, result) ==
  LET d1 == [d EXCEPT !.nodesMap = [k \in DOMAIN @ \ {result.id} |-> @[k]]]
  IN  IF Info(n).nodeName = STYLE_ELEMENT
        THEN [d |-> d1, value |-> Null]
        ELSE [d |-> d1, value |-> result]

\* SanitizeRemoved that protects a style node only once its payload was sent.
SanitizeRemovedIfSent(d, n, result) ==
  IF Info(n).nodeName = STYLE_ELEMENT /\ HasStyleText(n)
       /\ HitStyle(d.hitStyle, NodeInfo[Info(n).firstChild].data)
    THEN [d |-> d, value |-> Null]
    ELSE [d |-> d, value |-> result]

\* prop === 'removedNodes', lines 126-128
SanitizeRemoved(d, n, result) ==
  IF Info(n).nodeName = STYLE_ELEMENT
    THEN [d |-> d, value |-> Null]
    ELSE [d |-> d, value |-> result]

\* node.nodeName === BODY, lines 124-125
SanitizeBody(d, n, result) ==
  [d |-> d, value |-> result @@ ("nodeName" :> BODY)]

\* SanitizeNode that reports the node kind under every field role.
SanitizeNodeTyped(d, n, prop) ==
  LET d1 == AssignId(d, n)
      result == [id |-> d1.ids[n.node]]
  IN  IF Info(n).nodeName = BODY THEN SanitizeBody(d1, n, result)
      ELSE IF prop = "removedNodes"
        THEN SanitizeRemoved(d1, n, result @@ ("nodeType" :> Info(n).nodeType))
      ELSE IF prop = "addedNodes" THEN SanitizeAdded(d1, n, result)
      ELSE [d |-> d1, value |-> result @@ ("nodeType" :> Info(n).nodeType)]

\* SanitizeNode with the body test after the tests of the field role.
SanitizeNodeBodyLast(d, n, prop) ==
  LET d1 == AssignId(d, n)
      result == [id |-> d1.ids[n.node]]
  IN  IF prop = "removedNodes" THEN SanitizeRemoved(d1, n, result)
      ELSE IF prop = "addedNodes" THEN SanitizeAdded(d1, n, result)
      ELSE IF Info(n).nodeName = BODY THEN SanitizeBody(d1, n, result)
      ELSE [d |-> d1, value |-> result]

\* sanitize(node, prop) for a node object, lines 115-169
SanitizeNode(d, n, prop) ==
  LET d1 == AssignId(d, n)
      result == [id |-> d1.ids[n.node]]
  IN  IF Info(n).nodeName = BODY THEN SanitizeBody(d1, n, result)
      ELSE IF prop = "removedNodes" THEN SanitizeRemoved(d1, n, result)
      ELSE IF prop = "addedNodes" THEN SanitizeAdded(d1, n, result)
      ELSE [d |-> d1, value |-> result]

\* The one element of a singleton set (binds a computed value once).
The(S) == CHOOSE x \in S : TRUE

\* One call of sanitize on a node, with the call recorded in d.calls.
Call(d, n, prop) ==
  The({[d |-> [r.d EXCEPT !.calls = Append(@,
                 [node |-> n.node, prop |-> prop, value |-> r.value,
                  idBefore |-> IF HasId(d, n) THEN d.ids[n.node] ELSE "",
                  idAfter |-> r.d.ids[n.node],
                  counterBefore |-> d.nodeCounter, counterAfter |-> r.d.nodeCounter,
                  mapBefore |-> d.nodesMap, mapAfter |-> r.d.nodesMap,
                  hitBefore |-> d.hitStyle])],
        value |-> r.value] : r \in {SanitizeNode(d, n, prop)}})

\* Array.isArray(node) branch, lines 106-113: ret collects what is not null
RECURSIVE SanitizeArray(_, _, _, _, _)
SanitizeArray(d, node, prop, i, ret) ==
  IF i > Len(node) THEN [d |-> d, value |-> ret]
  ELSE The({SanitizeArray(r.d, node, prop, i + 1,
                          IF r.value # Null THEN Append(ret, r.value) ELSE ret) :
            r \in {Call(d, node[i], prop)}})

\* The host reports added and removed nodes as arrays, the other fields as
\* single nodes.
IsArrayProp(prop) == prop \in {"addedNodes", "removedNodes"}

\* sanitize(mutation[prop], prop), lines 101-170; a property the record does
\* not carry reads undefined and is returned as it is (lines 102-104).
Sanitize(d, mutation, prop) ==
  IF prop \notin DOMAIN mutation THEN [d |-> d, value |-> Undefined]
  ELSE IF IsArrayProp(prop) THEN SanitizeArray(d, mutation[prop], prop, 1, <<>>)
  ELSE Call(d, mutation[prop], prop)

----------------------------------------------------------------------------
(* The observer callback, lines 37-51 *)

\* if (value): an array is an object and so truthy, also when empty; the value
\* of a property the record does not carry is undefined
Truthy(mutation, prop, value) ==
  /\ prop \in DOMAIN mutation
  /\ IsArrayProp(prop) \/ value \notin {Null, Undefined}

\* lines 40-44: the properties of one record, from the last of TO_SANITIZE to
\* the first
RECURSIVE SanitizeProps(_, _, _)
SanitizeProps(d, mutation, j) ==
  IF j = 0 THEN [d |-> d, mutation |-> mutation]
  ELSE The({SanitizeProps(r.d,
                          IF Truthy(mutation, TO_SANITIZE[j], r.value)
                            THEN (TO_SANITIZE[j] :> r.value) @@ mutation ELSE mutation,
                          j - 1) :
            r \in {Sanitize(d, mutation, TO_SANITIZE[j])}})

\* SanitizeMutations that walks the batch from the first record to the last.
RECURSIVE SanitizeMutationsForward(_, _, _)
SanitizeMutationsForward(d, muts, i) ==
  IF i = 0 THEN [d |-> d, mutations |-> muts]
  ELSE The({SanitizeMutationsForward(r.d, [muts EXCEPT ![Len(muts) - i + 1] = r.mutation],
                                     i - 1) :
            r \in {SanitizeProps(d, muts[Len(muts) - i + 1], Len(TO_SANITIZE))}})

\* lines 38-45: the records of the batch, from the last to the first
RECURSIVE SanitizeMutations(_, _, _)
SanitizeMutations(d, muts, i) ==
  IF i = 0 THEN [d |-> d, mutations |-> muts]
  ELSE The({SanitizeMutations(r.d, [muts EXCEPT ![i] = r.mutation], i - 1) :
            r \in {SanitizeProps(d, muts[i], Len(TO_SANITIZE))}})

\* IsEmptyMutation that skips a record only when both lists are empty.
IsEmptyMutationBoth(mutation) ==
  /\ "addedNodes" \in DOMAIN mutation /\ Len(mutation.addedNodes) = 0
  /\ "removedNodes" \in DOMAIN mutation /\ Len(mutation.removedNodes) = 0

\* lines 62-70: the two tests that skip a record
IsEmptyMutation(mutation) ==
  \/ "addedNodes" \in DOMAIN mutation /\ Len(mutation.addedNodes) = 0
  \/ "removedNodes" \in DOMAIN mutation /\ Len(mutation.removedNodes) = 0

\* excludeEmptyMutations that puts each kept record in front of the results.
RECURSIVE excludeEmptyMutationsReversed(_)
excludeEmptyMutationsReversed(muts) ==
  IF muts = <<>> THEN <<>>
  ELSE excludeEmptyMutationsReversed(Tail(muts))
         \o (IF IsEmptyMutation(Head(muts)) THEN <<>> ELSE <<Head(muts)>>)

\* excludeEmptyMutations, lines 57-75
excludeEmptyMutations(muts) == SelectSeq(muts, LAMBDA m : ~IsEmptyMutation(m))

----------------------------------------------------------------------------
(* getNode, handleEvent and the touch lists, lines 172-221 *)

Str(s) == [str |-> s]
IsString(v) == "str" \in DOMAIN v
IsObject(v) == v \notin {Null, Undefined} /\ ~IsString(v)

\* !id : undefined, null and the empty string are falsy
Falsy(v) == v \in {Undefined, Null, Str("")}

\* this.nodesMap.get(id): undefined for a key the map does not hold
MapGet(map, id) ==
  IF IsString(id) /\ id.str \in DOMAIN map THEN map[id.str] ELSE Undefined

\* getNode without line 177: a reference tagged BODY is looked up as any other.
getNodeRegistryOnly(map, node) ==
  LET id == IF IsString(node) THEN node
            ELSE IF IsObject(node) /\ "id" \in DOMAIN node THEN node.id
            ELSE Undefined
  IN  IF Falsy(id) THEN Null
      ELSE MapGet(map, id)

\* getNode without line 175: a raw string leaves id undefined.
getNodeObjectOnly(map, node) ==
  LET id == IF IsObject(node) /\ "id" \in DOMAIN node THEN node.id
            ELSE Undefined
  IN  IF Falsy(id) THEN Null
      ELSE IF IsObject(node) /\ "nodeName" \in DOMAIN node /\ node.nodeName = BODY
        THEN Node("body")
      ELSE MapGet(map, id)

\* getNode(node), lines 172-179
getNode(map, node) ==
  LET id == IF IsString(node) THEN node
            ELSE IF IsObject(node) /\ "id" \in DOMAIN node THEN node.id
            ELSE Undefined
  IN  IF Falsy(id) THEN Null
      ELSE IF IsObject(node) /\ "nodeName" \in DOMAIN node /\ node.nodeName = BODY
        THEN Node("body")
      ELSE MapGet(map, id)

\* one entry of a touch list, lines 203-206
ExtractTouchTarget(map, touch) ==
  IF "id" \in DOMAIN touch
    THEN ("target" :> getNode(map, touch.id))
           @@ [k \in DOMAIN touch \ {"id"} |-> touch[k]]
    ELSE touch

\* extractTouchListTarget, lines 201-208
extractTouchListTarget(map, touchList) ==
  [i \in 1..Len(touchList) |-> ExtractTouchTarget(map, touchList[i])]

\* convertTouchTarget, lines 213-221
convertTouchTarget(map, evt) ==
  LET e1 == IF "touches" \in DOMAIN evt
              THEN [evt EXCEPT !.touches = extractTouchListTarget(map, @)] ELSE evt
  IN  IF "changedTouches" \in DOMAIN e1
        THEN [e1 EXCEPT !.changedTouches = extractTouchListTarget(map, @)] ELSE e1

\* IS_TOUCH_EVENTS without the anchor: /touch/ matches anywhere in the type.
IS_TOUCH_EVENTS_Anywhere(type) ==
  \E k \in 1..Len(type) : k + 4 <= Len(type) /\ SubSeq(type, k, k + 4) = "touch"

\* IS_TOUCH_EVENTS = /^touch/, line 10
IS_TOUCH_EVENTS(type) == Len(type) >= 5 /\ SubSeq(type, 1, 5) = "touch"

\* handleEvent that dispatches without line 189: the event keeps the target
\* reference it arrived with.
handleEventTargetKept(map, event) ==
  LET target == getNode(map, IF "target" \in DOMAIN event THEN event.target ELSE Undefined)
      e1 == IF IS_TOUCH_EVENTS(event.type) THEN convertTouchTarget(map, event) ELSE event
  IN  IF target \notin {Null, Undefined}
        THEN [event |-> e1, dispatched |-> <<[target |-> target, event |-> e1]>>]
        ELSE [event |-> e1, dispatched |-> <<>>]

\* handleEvent, lines 181-192: [event |-> the event object afterwards,
\* dispatched |-> the dispatchEvent calls]
handleEvent(map, event) ==
  LET target == getNode(map, IF "target" \in DOMAIN event THEN event.target ELSE Undefined)
      e1 == IF IS_TOUCH_EVENTS(event.type) THEN convertTouchTarget(map, event) ELSE event
  IN  IF target \notin {Null, Undefined}
        THEN LET e2 == ("target" :> target) @@ e1
             IN  [event |-> e2, dispatched |-> <<[target |-> target, event |-> e2]>>]
        ELSE [event |-> e1, dispatched |-> <<>>]

\* The getNode calls extractTouchListTarget makes on one list, lines 202-207
TouchListCalls(map, touchList) ==
  LET withId == SelectSeq(touchList, LAMBDA touch : "id" \in DOMAIN touch)
  IN  [i \in 1..Len(withId) |-> [node |-> withId[i].id, value |-> getNode(map, withId[i].id)]]

\* The getNode calls of handleEvent, in order: the target (line 182), then the
\* entries of touches and of changedTouches (lines 214-219) of a touch event
getNodeCalls(map, event) ==
  LET target == IF "target" \in DOMAIN event THEN event.target ELSE Undefined
      list(f) == IF IS_TOUCH_EVENTS(event.type) /\ f \in DOMAIN event
                   THEN TouchListCalls(map, event[f]) ELSE <<>>
  IN  <<[node |-> target, value |-> getNode(map, target)]>>
        \o list("touches") \o list("changedTouches")

----------------------------------------------------------------------------
(* What the host delivers: change records read off the live tree *)

\* The child lists of the live tree, in document order.
Children ==
  [ html   |-> <<"head", "body">>,
    body   |-> <<"style1", "style2", "style3", "div">>,
    style1 |-> <<"text1">>,
    div    |-> <<"text4", "comment">> ]

\* <<parent, position>> of every node the host reports as a child
Places == {<<p, i>> : p \in DOMAIN Children, i \in 1..5} \cap
          {pl \in (DOMAIN Children) \X (1..5) : pl[2] <= Len(Children[pl[1]])}

\* The run of k consecutive children that starts at a place.
Run(pl, k) == [i \in 1..k |-> Node(Children[pl[1]][pl[2] + i - 1])]
RunsAt(pl) == {Run(pl, k) : k \in {k \in 1..MaxList : pl[2] + k - 1 <= Len(Children[pl[1]])}}

\* Records of a child-list change, carrying only the fields the change has.
AddRecords ==
  UNION {{[target |-> Node(pl[1]), addedNodes |-> run] : run \in RunsAt(pl)} : pl \in Places}
RemoveRecords ==
  UNION {{[target |-> Node(pl[1]), removedNodes |-> run] : run \in RunsAt(pl)} : pl \in Places}
\* One node inserted before or after its neighbour.
SiblingRecords ==
  {[target |-> Node(pl[1]), addedNodes |-> Run(pl, 1),
    nextSibling |-> Node(Children[pl[1]][pl[2] + 1])] :
      pl \in {q \in Places : q[2] < Len(Children[q[1]])}}
  \cup
  {[target |-> Node(pl[1]), addedNodes |-> Run(pl, 1),
    previousSibling |-> Node(Children[pl[1]][pl[2] - 1])] :
      pl \in {q \in Places : q[2] > 1}}
\* One node replaced by its neighbour.
ReplaceRecords ==
  {[target |-> Node(pl[1]), addedNodes |-> Run(<<pl[1], pl[2] + 1>>, 1),
    removedNodes |-> Run(pl, 1)] :
      pl \in {q \in Places : q[2] < Len(Children[q[1]])}}
\* Records of an attribute change.
AttributeRecords == {[target |-> Node(name)] : name \in {"body", "div"}}

\* The same record as a host reports it that fills in both lists always.
BothLists(r) ==
  r @@ [addedNodes |-> <<>>, removedNodes |-> <<>>]

Records ==
  AddRecords \cup RemoveRecords \cup SiblingRecords \cup ReplaceRecords
    \cup AttributeRecords
    \cup {BothLists(r) : r \in {q \in AddRecords \cup RemoveRecords \cup AttributeRecords :
                                  q.target = Node("div")}}

\* The nodes a record names, and how many of them carry no identity yet.
NodesOf(r) ==
  {r[f] : f \in DOMAIN r \cap {"target", "nextSibling", "previousSibling"}}
    \cup UNION {{r[f][i] : i \in 1..Len(r[f])} : f \in DOMAIN r \cap {"addedNodes", "removedNodes"}}
NewNodes(batch) ==
  Cardinality({n \in UNION {NodesOf(batch[i]) : i \in 1..Len(batch)} : n.node \notin DOMAIN ids})

\* The names of the nodes the records of a batch list as removed.
RemovedBy(batch) ==
  UNION {{batch[i].removedNodes[e].node : e \in 1..Len(batch[i].removedNodes)} :
           i \in {k \in 1..Len(batch) : "removedNodes" \in DOMAIN batch[k]}}

\* Records that add or remove one node.
SingleRecords ==
  {r \in AddRecords \cup RemoveRecords :
     \A f \in DOMAIN r \cap {"addedNodes", "removedNodes"} : Len(r[f]) = 1}

\* A batch holds one record of any shape, or 2..MaxBatch records that each add
\* or remove one node; only records that fit under the cap are drawn.
Batches ==
  LET fit(R) == {r \in R : nodeCounter + NewNodes(<<r>>) <= MaxCounter}
  IN  {<<r>> : r \in fit(Records)}
        \cup UNION {[1..k -> fit(SingleRecords)] : k \in 2..MaxBatch}

\* Batches of one record that adds a child to the body or removes one.
BodyBatches ==
  {<<r>> : r \in {q \in SingleRecords :
                    q.target = Node("body") /\ nodeCounter + NewNodes(<<q>>) <= MaxCounter}}

----------------------------------------------------------------------------
(* Inbound messages *)

\* Message types the switch of handleMessage has no case for.
OtherTypes == {"ping", "Init"}

InitArgs == {[url |-> "https://x", width |-> 400], [url |-> "https://y", width |-> 320]}

\* Identities a reference may name: registered ones, and one never assigned.
RefIds == {"", "1", "2", "99"}
NodeRefs ==
  {Undefined} \cup {Str(i) : i \in RefIds} \cup {[id |-> Str(i)] : i \in RefIds}
    \cup {[id |-> Str(i), nodeName |-> BODY] : i \in {"", "1", "99"}}
    \cup {[nodeName |-> "DIV"]}

Touches == {[id |-> Str(i), identifier |-> 0] : i \in {"1", "99"}} \cup {[identifier |-> 0]}
TouchLists == UNION {[1..k -> Touches] : k \in 0..MaxTouches}

Events ==
  {[type |-> "click", target |-> t] : t \in NodeRefs} \cup {[type |-> "click"]}
    \cup {[type |-> ty, target |-> t, touches |-> l] :
            ty \in {"touchstart", "multitouch"}, t \in {Str("1"), Str("99")}, l \in TouchLists}
    \cup {[type |-> "touchend", target |-> [id |-> Str("1")], changedTouches |-> l] :
            l \in TouchLists}
    \cup {[type |-> "touchmove", target |-> Undefined, touches |-> l, changedTouches |-> l] :
            l \in TouchLists}

----------------------------------------------------------------------------
(* The state machine *)

Init ==
  /\ nodeCounter = 0
  /\ nodesMap = <<>>
  /\ ids = <<>>
  /\ hitStyle = {}
  /\ URL = "about:blank"
  /\ clientWidth = 0
  /\ mutations = <<>>
  /\ calls = <<>>
  /\ sanitized = <<>>
  /\ posted = <<>>
  /\ message = Undefined
  /\ handled = Undefined
  /\ dispatched = <<>>
  /\ applied = <<>>
  /\ resolved = <<>>
  /\ removed = {}

\* The observer callback on one batch, lines 37-51.
Observe(batch) ==
  /\ nodeCounter + NewNodes(batch) <= MaxCounter
  /\ \E r \in {SanitizeMutations(
                [nodeCounter |-> nodeCounter, nodesMap |-> nodesMap, ids |-> ids,
                 hitStyle |-> hitStyle, calls |-> <<>>],
                batch, Len(batch))} :
         /\ nodeCounter' = r.d.nodeCounter
         /\ nodesMap' = r.d.nodesMap
         /\ ids' = r.d.ids
         /\ hitStyle' = r.d.hitStyle
         /\ calls' = r.d.calls
         /\ sanitized' = r.mutations
         /\ posted' = <<[type |-> "MutationRecord",
                         mutations |-> excludeEmptyMutations(r.mutations)]>>
  /\ mutations' = batch
  /\ message' = Undefined
  /\ handled' = Undefined
  /\ dispatched' = <<>>
  /\ applied' = <<>>
  /\ resolved' = <<>>
  /\ removed' = removed \cup RemovedBy(batch)
  /\ UNCHANGED <<URL, clientWidth>>

\* Inbound that empties the dedup table on every message.
InboundForgetsStyles(data) ==
  /\ message' = data
  /\ mutations' = <<>>
  /\ calls' = <<>>
  /\ sanitized' = <<>>
  /\ posted' = <<>>
  /\ hitStyle' = {}
  /\ UNCHANGED <<nodeCounter, nodesMap, ids, removed>>

\* What every inbound message leaves alone or resets.
Inbound(data) ==
  /\ message' = data
  /\ mutations' = <<>>
  /\ calls' = <<>>
  /\ sanitized' = <<>>
  /\ posted' = <<>>
  /\ UNCHANGED <<nodeCounter, nodesMap, ids, hitStyle, removed>>

\* HandleInit without line 85: the client width is left as it was.
HandleInitUrlOnly(data) ==
  /\ data.type = "init"
  /\ URL' = data.url
  /\ UNCHANGED clientWidth
  /\ handled' = Undefined
  /\ dispatched' = <<>>
  /\ applied' = <<>>
  /\ resolved' = <<>>
  /\ Inbound(data)

\* handleMessage, case 'init', lines 83-86
HandleInit(data) ==
  /\ data.type = "init"
  /\ URL' = data.url
  /\ clientWidth' = data.width
  /\ handled' = Undefined
  /\ dispatched' = <<>>
  /\ applied' = <<>>
  /\ resolved' = <<>>
  /\ Inbound(data)

\* handleMessage, case 'event', lines 87-89
HandleEventMessage(data) ==
  /\ data.type = "event"
  /\ LET r == handleEvent(nodesMap, data.event)
     IN  /\ handled' = r.event
         /\ dispatched' = r.dispatched
  /\ resolved' = getNodeCalls(nodesMap, data.event)
  /\ applied' = <<>>
  /\ UNCHANGED <<URL, clientWidth>>
  /\ Inbound(data)

\* handleMessage, case 'return', lines 90-92, and handleReturn, lines 194-196
HandleReturn(data) ==
  /\ data.type = "return"
  /\ applied' = <<data.return>>
  /\ handled' = Undefined
  /\ dispatched' = <<>>
  /\ resolved' = <<>>
  /\ UNCHANGED <<URL, clientWidth>>
  /\ Inbound(data)

\* HandleOther with a default case that hands the message to the evaluator.
HandleOtherApplied(data) ==
  /\ data.type \notin {"init", "event", "return"}
  /\ handled' = Undefined
  /\ dispatched' = <<>>
  /\ applied' = <<data>>
  /\ resolved' = <<>>
  /\ UNCHANGED <<URL, clientWidth>>
  /\ Inbound(data)

\* handleMessage with a type the switch has no case for, lines 82-93
HandleOther(data) ==
  /\ data.type \notin {"init", "event", "return"}
  /\ handled' = Undefined
  /\ dispatched' = <<>>
  /\ applied' = <<>>
  /\ resolved' = <<>>
  /\ UNCHANGED <<URL, clientWidth>>
  /\ Inbound(data)

Next == \E batch \in Batches : Observe(batch)

NextM ==
  \/ \E batch \in BodyBatches : Observe(batch)
  \/ \E a \in InitArgs : HandleInit([type |-> "init", url |-> a.url, width |-> a.width])
  \/ \E e \in Events : HandleEventMessage([type |-> "event", event |-> e])
  \/ HandleReturn([type |-> "return", return |-> "result"])
  \/ \E t \in OtherTypes : HandleOther([type |-> t])

Spec == Init /\ [][Next]_vars
SpecM == Init /\ [][NextM]_vars

----------------------------------------------------------------------------
(* Claims about the observer callback and sanitize (specification Spec) *)

\* The identities in the order the counter yields them.
Decimal == <<"1", "2", "3", "4", "5", "6", "7", "8", "9", "10", "11", "12">>

CallsOf(name) == {i \in 1..Len(calls) : calls[i].node = name}
IsStyle(name) == NodeInfo[name].nodeName = STYLE_ELEMENT
\* The text payload of a style node whose first child is a text node.
Payload(name) == NodeInfo[NodeInfo[name].firstChild].data
HasPayload(name) ==
  /\ IsStyle(name)
  /\ NodeInfo[name].firstChild # NoNode
  /\ NodeInfo[NodeInfo[name].firstChild].nodeType = TEXT_NODE

\* C1: the first sanitize call on a node, under any field role and also when
\* the call returns null, gives the node the next counter value as its
\* identity and adds exactly one registry entry; every later call on the node
\* reports the same identity and leaves the counter and the registry as they
\* were.
C1_IdentityAssignedOnce ==
  /\ \A i \in 1..Len(calls) :
       LET c == calls[i]
       IN  /\ IF c.idBefore = ""
                THEN /\ c.counterAfter = c.counterBefore + 1
                     /\ c.idAfter = Decimal[c.counterAfter]
                     /\ c.idAfter \notin DOMAIN c.mapBefore
                     /\ DOMAIN c.mapAfter = DOMAIN c.mapBefore \cup {c.idAfter}
                     /\ c.mapAfter[c.idAfter] = Node(c.node)
                     /\ \A k \in DOMAIN c.mapBefore : c.mapAfter[k] = c.mapBefore[k]
                ELSE /\ c.idAfter = c.idBefore
                     /\ c.counterAfter = c.counterBefore
                     /\ c.mapAfter = c.mapBefore
           /\ c.value # Null => c.value.id = c.idAfter
           /\ i > 1 => /\ c.counterBefore = calls[i - 1].counterAfter
                       /\ c.mapBefore = calls[i - 1].mapAfter
           /\ \A j \in 1..(i - 1) : calls[j].node = c.node => c.idBefore = calls[j].idAfter
           /\ c.node \in DOMAIN ids /\ ids[c.node] = c.idAfter
  /\ calls # <<>> => /\ nodeCounter = calls[Len(calls)].counterAfter
                     /\ nodesMap = calls[Len(calls)].mapAfter

\* A node whose first call returned null is sanitized again, under another role.
C1_Witness ==
  \E i, j \in 1..Len(calls) :
    /\ i < j
    /\ calls[i].node = calls[j].node
    /\ calls[i].idBefore = ""
    /\ calls[i].value = Null
    /\ calls[j].prop # calls[i].prop
    /\ calls[j].value # Null

\* C2: the assigned identities are exactly "1" .. "k" for the counter value k,
\* the registry has k entries, no two nodes share an identity, and no registry
\* entry is ever removed or bound to another node.
C2_RegistryShape ==
  /\ nodeCounter <= Len(Decimal)
  /\ DOMAIN nodesMap = {Decimal[k] : k \in 1..nodeCounter}
  /\ Cardinality(DOMAIN nodesMap) = nodeCounter
  /\ {ids[name] : name \in DOMAIN ids} = DOMAIN nodesMap
  /\ Cardinality(DOMAIN ids) = nodeCounter
  /\ \A name \in DOMAIN ids : nodesMap[ids[name]] = Node(name)
C2_RegistryKept ==
  \A k \in DOMAIN nodesMap : k \in DOMAIN nodesMap' /\ nodesMap'[k] = nodesMap[k]
C2_Registry == []C2_RegistryShape /\ [][C2_RegistryKept]_vars

\* A third node is registered by a batch that sanitizes the first one again.
C2_Witness ==
  /\ nodeCounter = 3
  /\ \E i \in 1..Len(calls) : calls[i].counterBefore = 2 /\ calls[i].idAfter = "3"
  /\ \E i \in 1..Len(calls) : calls[i].idBefore = "1"

\* C3: a node whose tag is BODY is sanitized, under every field role, to
\* exactly its identity and the tag BODY, whatever else the node carries.
C3_BodyOnlyIdentityAndTag ==
  \A i \in 1..Len(calls) :
    NodeInfo[calls[i].node].nodeName = BODY
      => calls[i].value = [id |-> calls[i].idAfter, nodeName |-> BODY]

\* The body, which has listeners, attributes, style and children, is sanitized
\* as an added and as a removed node of one batch.
C3_Witness ==
  /\ Len(NodeInfo.body.attributes) > 0 /\ NodeInfo.body.style # {}
  /\ \E i, j \in CallsOf("body") :
       calls[i].prop = "addedNodes" /\ calls[j].prop = "removedNodes"

\* C4: of two distinct style nodes whose first child is a text node with the
\* same payload, the one sanitized first under addedNodes is serialized with a
\* child list of exactly one text entry carrying the payload, and one sanitized
\* after the payload was sent returns null.
C4_StylePayloadSentOnce ==
  \A i \in 1..Len(calls) :
    LET c == calls[i]
    IN  (c.prop = "addedNodes" /\ HasPayload(c.node))
          => IF Payload(c.node) \in c.hitBefore
               THEN c.value = Null
               ELSE /\ c.value # Null
                    /\ "childNodes" \in DOMAIN c.value
                    /\ c.value.childNodes
                         = <<[nodeType |-> TEXT_NODE, data |-> Payload(c.node)]>>

\* C5: a style node sanitized under removedNodes returns null whatever the
\* dedup table holds; no posted record lists a style node as removed, and a
\* record whose removed list holds only style nodes is not posted.
C5_StyleNeverRemoved ==
  /\ \A i \in 1..Len(calls) :
       (calls[i].prop = "removedNodes" /\ IsStyle(calls[i].node)) => calls[i].value = Null
  /\ \A p \in 1..Len(posted) : \A k \in 1..Len(posted[p].mutations) :
       LET m == posted[p].mutations[k]
       IN  "removedNodes" \in DOMAIN m
             => \A e \in 1..Len(m.removedNodes) : ~IsStyle(nodesMap[m.removedNodes[e].id].node)
  /\ \A i \in 1..Len(mutations) :
       LET m == mutations[i]
       IN  ("removedNodes" \in DOMAIN m /\ Len(m.removedNodes) > 0
              /\ \A e \in 1..Len(m.removedNodes) : IsStyle(m.removedNodes[e].node))
             => /\ sanitized[i].removedNodes = <<>>
                /\ \A k \in 1..Len(posted[1].mutations) : posted[1].mutations[k] # sanitized[i]

\* A style node whose payload is in the dedup table is reported removed, and
\* the batch that is posted is empty.
C5_Witness ==
  /\ \E i \in 1..Len(calls) :
       /\ calls[i].prop = "removedNodes"
       /\ HasPayload(calls[i].node)
       /\ Payload(calls[i].node) \in calls[i].hitBefore
  /\ Len(posted) = 1 /\ posted[1].mutations = <<>>

\* C6: a record is left out of the posted batch exactly when, after the fields
\* are sanitized, it carries an added list of length zero or a removed list of
\* length zero; a record that carries neither list is kept.
C6_Excluded(m) ==
  \/ "addedNodes" \in DOMAIN m /\ m.addedNodes = <<>>
  \/ "removedNodes" \in DOMAIN m /\ m.removedNodes = <<>>
C6_EmptyRecordsExcluded ==
  \A p \in 1..Len(posted) :
    /\ posted[p].mutations = SelectSeq(sanitized, LAMBDA m : ~C6_Excluded(m))
    /\ \A i \in 1..Len(sanitized) :
         DOMAIN sanitized[i] \cap {"addedNodes", "removedNodes"} = {}
           => \E k \in 1..Len(posted[p].mutations) : posted[p].mutations[k] = sanitized[i]

\* A record with an empty added list and a removed list that is not empty is
\* left out.
C6_Witness ==
  /\ Len(posted) = 1 /\ posted[1].mutations = <<>>
  /\ \E i \in 1..Len(sanitized) :
       /\ {"addedNodes", "removedNodes"} \subseteq DOMAIN sanitized[i]
       /\ sanitized[i].addedNodes = <<>>
       /\ Len(sanitized[i].removedNodes) > 0

\* The text nodes whose parent is a style element.
StyleOwnedText(name) ==
  /\ NodeInfo[name].nodeType = TEXT_NODE
  /\ NodeInfo[name].parentNode # NoNode
  /\ IsStyle(NodeInfo[name].parentNode)

\* C10 as claimed: a text node whose parent is a style element, sanitized under
\* addedNodes, is serialized like a comment, with its identity, node kind and
\* data.
C10_StyleTextSerialized ==
  \A i \in 1..Len(calls) :
    (calls[i].prop = "addedNodes" /\ StyleOwnedText(calls[i].node))
      => calls[i].value = [id |-> calls[i].idAfter, nodeType |-> TEXT_NODE,
                           data |-> NodeInfo[calls[i].node].data]

\* C10 as amended: a text node whose parent is a style element, sanitized under
\* addedNodes, returns null (it still gets its identity); any other text node
\* and every comment is serialized with its identity, node kind and data.
C10_StyleTextSuppressed ==
  \A i \in 1..Len(calls) :
    LET c == calls[i]
    IN  (c.prop = "addedNodes" /\ NodeInfo[c.node].nodeType \in {TEXT_NODE, COMMENT_NODE})
          => IF StyleOwnedText(c.node)
               THEN c.value = Null /\ c.idAfter # ""
               ELSE c.value = [id |-> c.idAfter, nodeType |-> NodeInfo[c.node].nodeType,
                               data |-> NodeInfo[c.node].data]

\* The text of a style element is reported as added, and the record is left
\* out of the posted batch.
C10_Witness ==
  /\ \E i \in 1..Len(calls) :
       calls[i].prop = "addedNodes" /\ StyleOwnedText(calls[i].node)
  /\ Len(posted) = 1 /\ posted[1].mutations = <<>>

\* C4 holds of every payload that is no property name of Object.prototype.
C4_HoldsOffPrototype ==
  \A i \in 1..Len(calls) :
    LET c == calls[i]
    IN  (c.prop = "addedNodes" /\ HasPayload(c.node)
           /\ Payload(c.node) \notin ObjectPrototypeKeys)
          => IF Payload(c.node) \in c.hitBefore
               THEN c.value = Null
               ELSE /\ c.value # Null
                    /\ "childNodes" \in DOMAIN c.value
                    /\ c.value.childNodes
                         = <<[nodeType |-> TEXT_NODE, data |-> Payload(c.node)]>>

----------------------------------------------------------------------------
(* Claims about the inbound messages (specification SpecM) *)

IsMessage(type) == "type" \in DOMAIN message /\ message.type = type

\* C7: for a touch event, every entry of touches and of changedTouches that
\* carries an identity ends without the identity field and with its target set
\* to the node registered under that identity, or to null when the identity is
\* not registered.
C7_TouchTargetsResolved ==
  (IsMessage("event") /\ IS_TOUCH_EVENTS(message.event.type))
    => \A f \in {"touches", "changedTouches"} \cap DOMAIN message.event :
         \A i \in 1..Len(message.event[f]) :
           "id" \in DOMAIN message.event[f][i]
             => /\ "id" \notin DOMAIN handled[f][i]
                /\ "target" \in DOMAIN handled[f][i]
                /\ handled[f][i].target
                     = IF message.event[f][i].id.str \in DOMAIN nodesMap
                         THEN nodesMap[message.event[f][i].id.str]
                         ELSE Null

\* C7 with undefined in place of null holds: an identity that is not registered
\* leaves the entry's target undefined.
C7_UnregisteredIsUndefined ==
  (IsMessage("event") /\ IS_TOUCH_EVENTS(message.event.type))
    => \A f \in {"touches", "changedTouches"} \cap DOMAIN message.event :
         \A i \in 1..Len(message.event[f]) :
           "id" \in DOMAIN message.event[f][i]
             => /\ "id" \notin DOMAIN handled[f][i]
                /\ handled[f][i].target
                     = IF message.event[f][i].id.str \in DOMAIN nodesMap
                         THEN nodesMap[message.event[f][i].id.str]
                         ELSE Undefined

\* C8: an init message sets the document URL and the client width to the
\* values it carries and does nothing else: nothing is posted, dispatched or
\* applied, and the counter, the registry and the dedup table stay as they are.
C8_InitEffect ==
  IsMessage("init")
    => /\ URL = message.url
       /\ clientWidth = message.width
       /\ posted = <<>>
       /\ dispatched = <<>>
       /\ applied = <<>>
C8_InitFrame ==
  IsMessage("init")' => UNCHANGED <<nodeCounter, nodesMap, ids, hitStyle>>
C8_InitOnlySetsUrlAndWidth == []C8_InitEffect /\ [][C8_InitFrame]_vars

\* An init message is handled after nodes were registered and a payload sent.
C8_Witness ==
  /\ IsMessage("init")
  /\ URL = "https://x" /\ clientWidth = 400
  /\ nodeCounter > 0 /\ hitStyle # {}

\* The node a target reference resolves to, as a set of at most one node.
C9_Resolved(ref) ==
  IF ref \in {Null, Undefined} THEN {}
  ELSE IF IsString(ref)
    THEN {nodesMap[k] : k \in {ref.str} \cap DOMAIN nodesMap}
  ELSE IF "id" \notin DOMAIN ref \/ ref.id = Str("") THEN {}
  ELSE IF "nodeName" \in DOMAIN ref /\ ref.nodeName = BODY THEN {Node("body")}
  ELSE {nodesMap[k] : k \in {ref.id.str} \cap DOMAIN nodesMap}

\* C9: an event message leads to exactly one dispatch, at the node its target
\* reference resolves to and with the event's target set to that node; when the
\* reference does not resolve nothing is dispatched; nothing is posted either
\* way.
C9_EventDispatchedOrDropped ==
  IsMessage("event")
    => LET e == message.event
           to == C9_Resolved(IF "target" \in DOMAIN e THEN e.target ELSE Undefined)
       IN  /\ posted = <<>>
           /\ applied = <<>>
           /\ IF to = {}
                THEN dispatched = <<>>
                ELSE /\ Len(dispatched) = 1
                     /\ dispatched[1].target \in to
                     /\ dispatched[1].event = handled
                     /\ handled.target = dispatched[1].target
                     /\ handled.type = e.type

\* An event whose target is a raw identity string is dispatched at the node
\* an earlier batch registered under that identity.
C9_Witness ==
  /\ IsMessage("event")
  /\ Len(dispatched) = 1
  /\ IsString(message.event.target)
  /\ dispatched[1].target = nodesMap[message.event.target.str]

----------------------------------------------------------------------------
(* Claims about getNode (specification SpecM) *)

\* The identity a reference names, as a set of at most one string: the
\* reference itself when it is a string, its identity field when it is an
\* object; empty when the reference is absent or the identity is empty.
RefIdentity(ref) ==
  IF ref \in {Null, Undefined} THEN {}
  ELSE IF IsString(ref) THEN {ref.str} \ {""}
  ELSE IF "id" \in DOMAIN ref /\ IsString(ref.id) THEN {ref.id.str} \ {""}
  ELSE {}

IsBodyRef(ref) == IsObject(ref) /\ "nodeName" \in DOMAIN ref /\ ref.nodeName = BODY

\* C11: getNode returns null, for an object and for a raw string alike,
\* whenever the reference is empty or absent or names an identity the registry
\* does not hold.
C11_UnknownResolvesNull ==
  \A i \in 1..Len(resolved) :
    RefIdentity(resolved[i].node) \cap DOMAIN nodesMap = {} => resolved[i].value = Null

\* What getNode does return: null for an empty or absent reference, the body
\* for an object tagged BODY, and undefined for any other reference whose
\* identity the registry does not hold.
C11_UnknownIsUndefined ==
  \A i \in 1..Len(resolved) :
    LET r == resolved[i]
    IN  IF RefIdentity(r.node) = {} THEN r.value = Null
        ELSE IF IsBodyRef(r.node) THEN r.value = Node("body")
        ELSE RefIdentity(r.node) \cap DOMAIN nodesMap = {} => r.value = Undefined

----------------------------------------------------------------------------
(* Claims about the inbound messages, continued (specification SpecM) *)

IsOtherMessage == "type" \in DOMAIN message /\ message.type \notin {"init", "event", "return"}

\* C12: a message whose type is none of init, event and return is ignored:
\* nothing is dispatched, applied, resolved or posted, and the document URL,
\* the client width, the counter, the registry and the dedup table stay as
\* they were.
C12_OtherEffect ==
  IsOtherMessage
    => /\ posted = <<>>
       /\ dispatched = <<>>
       /\ applied = <<>>
       /\ resolved = <<>>
       /\ handled = Undefined
C12_OtherFrame ==
  IsOtherMessage' => UNCHANGED <<URL, clientWidth, nodeCounter, nodesMap, ids, hitStyle>>
C12_UnrecognizedIgnored == []C12_OtherEffect /\ [][C12_OtherFrame]_vars

\* A message whose type differs from init only in case arrives after an init
\* message and after nodes were registered and a payload sent.
C12_Witness ==
  /\ IsOtherMessage /\ message.type = "Init"
  /\ URL = "https://x" /\ clientWidth = 400
  /\ nodeCounter > 0 /\ hitStyle # {}

----------------------------------------------------------------------------
(* Claims about the observer callback, continued (specification Spec) *)

\* out is in picked from in without reordering: some strictly increasing choice
\* of positions of in yields out.
IsSubsequence(out, in) ==
  \E f \in [1..Len(out) -> 1..Len(in)] :
    /\ \A k \in 1..Len(out) : out[k] = in[f[k]]
    /\ \A k \in 1..(Len(out) - 1) : f[k] < f[k + 1]

\* C13: a batch yields exactly one posted message, of type MutationRecord and
\* holding nothing but the type and the mutations list; the list is picked
\* from the records of the batch, each sanitized in its place, without
\* reordering or repetition, and may be empty.
C13_OneMessageInBatchOrder ==
  mutations # <<>>
    => /\ Len(posted) = 1
       /\ DOMAIN posted[1] = {"type", "mutations"}
       /\ posted[1].type = "MutationRecord"
       /\ Len(sanitized) = Len(mutations)
       /\ \A i \in 1..Len(mutations) :
            /\ DOMAIN sanitized[i] = DOMAIN mutations[i]
            /\ sanitized[i].target.id = ids[mutations[i].target.node]
       /\ Len(posted[1].mutations) <= Len(mutations)
       /\ IsSubsequence(posted[1].mutations, sanitized)

\* Two records of one batch are both posted, and they differ.
C13_Witness ==
  /\ Len(mutations) = 2
  /\ Len(posted) = 1 /\ Len(posted[1].mutations) = 2
  /\ posted[1].mutations[1] # posted[1].mutations[2]

\* C14: a node other than the body, sanitized as target, nextSibling or
\* previousSibling, or as a removed node that is no style element, is
\* serialized to its identity and nothing else.
C14_IdentityOnly ==
  \A i \in 1..Len(calls) :
    LET c == calls[i]
    IN  (/\ NodeInfo[c.node].nodeName # BODY
         /\ c.prop # "addedNodes"
         /\ ~(c.prop = "removedNodes" /\ IsStyle(c.node)))
          => c.value = [id |-> c.idAfter]

\* One batch names an element with listeners, attributes, style and children
\* as removed, and a node with data as a sibling or as removed.
C14_Witness ==
  /\ Len(NodeInfo.div.events) > 0 /\ Len(NodeInfo.div.attributes) > 0
  /\ NodeInfo.div.style # {} /\ NodeInfo.div.firstChild # NoNode
  /\ \E i \in CallsOf("div") : calls[i].prop \in {"removedNodes", "target"}
  /\ \E i \in 1..Len(calls) :
       /\ NodeInfo[calls[i].node].data # ""
       /\ calls[i].prop \in {"removedNodes", "nextSibling", "previousSibling"}

----------------------------------------------------------------------------
(* Claims about identities across batches and messages (specification SpecM) *)

\* A serialized node as the other side sends it back: the same object, its
\* identity a string value.
AsReference(value) == [value EXCEPT !.id = Str(@)]

\* C15: every node other than the body that was sanitized resolves from its
\* identity, given as a raw string, as an object holding the identity, or as
\* the serialized object itself, to that same node, after any number of
\* batches and messages.
C15_RoundTrip ==
  /\ \A name \in DOMAIN ids :
       NodeInfo[name].nodeName # BODY
         => /\ getNode(nodesMap, Str(ids[name])) = Node(name)
            /\ getNode(nodesMap, [id |-> Str(ids[name])]) = Node(name)
  /\ \A i \in 1..Len(calls) :
       (NodeInfo[calls[i].node].nodeName # BODY /\ calls[i].value # Null)
         => getNode(nodesMap, AsReference(calls[i].value)) = Node(calls[i].node)
  /\ \A i \in 1..Len(resolved) :
       LET r == resolved[i]
       IN  (~IsBodyRef(r.node) /\ RefIdentity(r.node) \cap DOMAIN nodesMap # {})
             => /\ r.value \in Nodes
                /\ r.value.node \in DOMAIN ids
                /\ RefIdentity(r.node) = {ids[r.value.node]}

\* An event whose target is the raw identity string of a node other than the
\* body, registered by an earlier batch, is dispatched at that node.
C15_Witness ==
  /\ IsMessage("event")
  /\ Len(dispatched) = 1
  /\ \E i \in 1..Len(resolved) :
       /\ IsString(resolved[i].node)
       /\ resolved[i].value \in Nodes \ {Node("body")}
       /\ ids[resolved[i].value.node] = resolved[i].node.str
       /\ dispatched[1].target = resolved[i].value

\* C16: a node that some batch listed as removed keeps its identity and its
\* registry entry: the identity resolves to the node, and an event whose
\* target names the identity (as a string or as an object not tagged BODY) is
\* dispatched at the node.
C16_RemovedStillResolves ==
  \A name \in removed :
    /\ name \in DOMAIN ids
    /\ ids[name] \in DOMAIN nodesMap
    /\ nodesMap[ids[name]] = Node(name)
    /\ getNode(nodesMap, Str(ids[name])) = Node(name)
    /\ (/\ IsMessage("event")
        /\ "target" \in DOMAIN message.event
        /\ ~IsBodyRef(message.event.target)
        /\ RefIdentity(message.event.target) = {ids[name]})
         => /\ Len(dispatched) = 1
            /\ dispatched[1].target = Node(name)
            /\ handled.target = Node(name)

\* An event is dispatched at a node that an earlier batch listed as removed.
C16_Witness ==
  /\ IsMessage("event")
  /\ Len(dispatched) = 1
  /\ dispatched[1].target.node \in removed
  /\ RefIdentity(message.event.target) = {ids[dispatched[1].target.node]}

\* C17: an object reference tagged BODY that holds a non-empty identity
\* resolves to the document's body, whether the registry holds that identity
\* or not and whatever node it holds under it; an event with such a target is
\* dispatched at the body.
C17_BodyBypassesRegistry ==
  /\ \A i \in (RefIds \cup DOMAIN nodesMap) \ {""} :
       getNode(nodesMap, [id |-> Str(i), nodeName |-> BODY]) = Node("body")
  /\ \A i \in 1..Len(resolved) :
       (IsBodyRef(resolved[i].node) /\ RefIdentity(resolved[i].node) # {})
         => resolved[i].value = Node("body")
  /\ (/\ IsMessage("event")
      /\ "target" \in DOMAIN message.event
      /\ IsBodyRef(message.event.target)
      /\ RefIdentity(message.event.target) # {})
       => /\ Len(dispatched) = 1
          /\ dispatched[1].target = Node("body")

\* An event whose target is tagged BODY and holds the identity of another
\* registered node is dispatched at the body.
C17_Witness ==
  /\ IsMessage("event")
  /\ "target" \in DOMAIN message.event
  /\ IsBodyRef(message.event.target)
  /\ \E i \in RefIdentity(message.event.target) \cap DOMAIN nodesMap :
       nodesMap[i] # Node("body")
  /\ Len(dispatched) = 1 /\ dispatched[1].target = Node("body")

----------------------------------------------------------------------------
(* Claims about the touch lists (specification SpecM) *)

StartsWith(type, prefix) == \E k \in 0..Len(type) : SubSeq(type, 1, k) = prefix

\* C18: handling an event keeps the length of touches and of changedTouches,
\* and changes an entry only when the event's type starts with "touch" and
\* the entry holds an identity field.
C18_OnlyTouchEntriesWithIdentityChange ==
  IsMessage("event")
    => \A f \in {"touches", "changedTouches"} \cap DOMAIN message.event :
         /\ f \in DOMAIN handled
         /\ Len(handled[f]) = Len(message.event[f])
         /\ \A i \in 1..Len(message.event[f]) :
              handled[f][i] # message.event[f][i]
                => /\ StartsWith(message.event.type, "touch")
                   /\ "id" \in DOMAIN message.event[f][i]

\* An event whose type holds "touch" but does not start with it carries an
\* entry with an identity, and the entry is left as it was.
C18_Witness ==
  /\ IsMessage("event")
  /\ message.event.type = "multitouch"
  /\ \E i \in 1..Len(message.event.touches) :
       /\ "id" \in DOMAIN message.event.touches[i]
       /\ handled.touches[i] = message.event.touches[i]

----------------------------------------------------------------------------
(* Claims about the order of sanitization (specification Spec) *)

C19_FieldOrder == <<"previousSibling", "nextSibling", "removedNodes", "addedNodes", "target">>

\* The nodes of one record in the order claimed, each with its field role.
RECURSIVE C19_RecordOrder(_, _)
C19_RecordOrder(m, j) ==
  IF j > Len(C19_FieldOrder) THEN <<>>
  ELSE LET f == C19_FieldOrder[j]
           here == IF f \notin DOMAIN m THEN <<>>
                   ELSE IF f \in {"addedNodes", "removedNodes"}
                     THEN [e \in 1..Len(m[f]) |-> <<m[f][e].node, f>>]
                   ELSE <<<<m[f].node, f>>>>
       IN  here \o C19_RecordOrder(m, j + 1)

\* The nodes of a batch in the order claimed: the last record first.
RECURSIVE C19_BatchOrder(_, _)
C19_BatchOrder(batch, i) ==
  IF i = 0 THEN <<>> ELSE C19_RecordOrder(batch[i], 1) \o C19_BatchOrder(batch, i - 1)

\* The places <<record, position>> of a batch that add a style node with the
\* text payload P.
C19_StylePlaces(batch, P) ==
  {pl \in (1..Len(batch)) \X (1..MaxList + 1) :
     /\ "addedNodes" \in DOMAIN batch[pl[1]]
     /\ pl[2] <= Len(batch[pl[1]].addedNodes)
     /\ HasPayload(batch[pl[1]].addedNodes[pl[2]].node)
     /\ Payload(batch[pl[1]].addedNodes[pl[2]].node) = P}

\* The serialized entries of a record's added list that carry a node's identity.
C19_Sent(i, name) ==
  {e \in 1..Len(sanitized[i].addedNodes) : sanitized[i].addedNodes[e].id = ids[name]}

----------------------------------------------------------------------------
(* Claims about what a message leaves alone (specification SpecM) *)

\* C20: a step that handles an inbound message of any type, the getNode calls
\* of an event included, leaves the counter, the registry, the identities of
\* the nodes and the dedup table as they were; a step that changes one of
\* them is the sanitization of a batch.
C20_MessageFrame ==
  /\ "type" \in DOMAIN message'
       => UNCHANGED <<nodeCounter, nodesMap, ids, hitStyle>>
  /\ <<nodeCounter, nodesMap, ids, hitStyle>>' # <<nodeCounter, nodesMap, ids, hitStyle>>
       => /\ mutations' # <<>>
          /\ calls' # <<>>
          /\ message' = Undefined
C20_MessagesRegisterNothing == [][C20_MessageFrame]_vars

\* An event that names an identity the registry does not hold is handled
\* after nodes were registered and a payload sent: the lookup finds nothing.
C20_Witness ==
  /\ IsMessage("event")
  /\ nodeCounter > 0 /\ hitStyle # {}
  /\ \E i \in 1..Len(resolved) :
       /\ RefIdentity(resolved[i].node) # {}
       /\ RefIdentity(resolved[i].node) \cap DOMAIN nodesMap = {}
       /\ resolved[i].value = Undefined

====
